---- MODULE Spec2Model ----
(***************************************************************************)
(* The tick engine of Arthachitra: the OrderBook class (order_book.cpp),    *)
(* the TickHandler registry and trade buffers, and the RedisPublisher they  *)
(* publish through (redis_publisher.cpp).                                   *)
(*                                                                          *)
(* A std::map<double,int> is a sequence of [price, quantity] records kept   *)
(* in ascending price order without duplicate prices; begin() is its first  *)
(* element and rbegin() its last.  Prices are ticks (integers), 0 included: *)
(* the code accepts every double.                                           *)
(***************************************************************************)
EXTENDS Integers, Sequences, FiniteSets, TLC

\* ------------------------------------------------------------------ bounds
MaxPrice == 2
MaxQty == 2
MaxDepth == 3
MaxClock == 4
MaxEvents == 2
MaxOverflow == 2
MaxSetup == 1
MaxWrites == 2
MaxStarts == 2

Prices == 0..MaxPrice
Quantities == (0 - 1)..MaxQty
Depths == 0..MaxDepth
Sides == {"bid", "ask"}

VARIABLES
    bids_,          \* OrderBook::bids_
    asks_,          \* OrderBook::asks_
    last_updated_,  \* OrderBook::last_updated_
    clock,          \* the clock read by high_resolution_clock::now()
    lastQty         \* history: per side and price, the quantity of the last
                    \* call when it was > 0, and 0 otherwise (never called,
                    \* or last called with a quantity <= 0)

VARIABLES
    orderbooks_,    \* TickHandler::orderbooks_: symbol -> [bids, asks]
    trades_,        \* TickHandler::trades_: symbol -> sequence of trades
    connected_,     \* RedisPublisher::connected_
    context_,       \* RedisPublisher::context_: "null" or "ctx"
    lastPublish,    \* the last RedisPublisher::publish call: channel, message, result
    callResult,     \* how the last process call ended: "none", "returned", "threw"
    nEvents,        \* events handed to the TickHandler so far
    received,       \* history: trades received so far, per symbol
    expectBooks,    \* history: orderbooks_ as the mutations alone leave it
    expectTrades    \* history: trades_ as the mutations alone leave it

VARIABLES
    idemPc,         \* the repeated-update run: "setup", "once", "twice"
    idemEv,         \* the update it applies twice
    idemAfter       \* the books as the first application left them

VARIABLES
    mutex_,         \* OrderBook::mutex_: "free" or the thread holding it
    pcW,            \* the updating thread: "idle", "write", "assign", "stamp"
    argW,           \* the arguments of its updateBid / updateAsk call
    pcR,            \* the reading thread: "idle", "got", or its place in toJson
    rdOp,           \* the call the reading thread made
    rdResult,       \* what that call returned
    rdExpect,       \* history: the same call on the last completed book
    snap,           \* the json object toJson is filling
    committed,      \* history: the book as the last completed update left it
    seen            \* history: the completed books since toJson was called

VARIABLES
    orderbook_mutex_,   \* TickHandler::orderbook_mutex_: "free" or the thread holding it
    pcP,            \* per thread, its place in processOrderBookUpdate
    argP,           \* per thread, the symbol and update of its call
    created,        \* history: per symbol, the OrderBook entries created so far
    raced           \* history: the symbols two calls met on before a book existed

VARIABLES
    running_,       \* TickHandler::running_
    tick_thread_,   \* TickHandler::tick_thread_: 0 when not joinable, else the thread
    pcL,            \* per ingestion loop thread spawned so far, its place in tickLoop
    pcC             \* per calling thread, its place in start() / stop()

VARIABLES
    password,       \* RedisPublisher::password_ of a publisher built with one
    lastCall,       \* history: the last connect / publish call, its state before and after
    pcH,            \* the heartbeat thread's place in the lambda of startHeartbeat
    pcS,            \* the publishing thread's place in publish
    hbMarked,       \* history: the heartbeat set connected_ false and no connect succeeded since
    hbReconnected,  \* history: the heartbeat made a reconnect attempt
    connectedOnce   \* history: a connect() call has succeeded

bookVars == <<bids_, asks_, last_updated_, clock, lastQty>>
handlerVars == <<orderbooks_, trades_, connected_, context_, lastPublish,
                 callResult, nEvents, received, expectBooks, expectTrades>>
idemVars == <<idemPc, idemEv, idemAfter>>
concVars == <<mutex_, pcW, argW, pcR, rdOp, rdResult, rdExpect, snap, committed, seen>>
regVars == <<orderbook_mutex_, pcP, argP, created, raced>>
engVars == <<running_, tick_thread_, pcL, pcC>>
VARIABLES
    running,        \* main.cpp: the volatile bool the signal handler clears
    pcM             \* main(): "main" until it returns, then "returned"

mainVars == <<running, pcM>>
pubVars == <<password, lastCall, pcH, pcS, hbMarked, hbReconnected, connectedOnce>>
threadVars == <<regVars, engVars, pubVars, mainVars>>
vars == <<bookVars, handlerVars, idemVars, concVars, threadVars>>

\* ------------------------------------------------------- std::map<double,int>
Level(p, q) == [price |-> p, quantity |-> q]

\* std::map::find: the index of key k, 0 when absent
MapFind(m, k) ==
    IF \E i \in 1..Len(m) : m[i].price = k
    THEN CHOOSE i \in 1..Len(m) : m[i].price = k
    ELSE 0

\* the number of keys ordered before k: where a new key k is linked in
MapLowerBound(m, k) == Cardinality({i \in 1..Len(m) : m[i].price < k})

\* MapAssign adding to the stored quantity: m[k] += v
MapAssign_accumulate(m, k, v) ==
    IF MapFind(m, k) # 0
    THEN [m EXCEPT ![MapFind(m, k)].quantity = @ + v]
    ELSE SubSeq(m, 1, MapLowerBound(m, k)) \o <<Level(k, v)>>
            \o SubSeq(m, MapLowerBound(m, k) + 1, Len(m))

\* m[k] = v
MapAssign(m, k, v) ==
    IF MapFind(m, k) # 0
    THEN [m EXCEPT ![MapFind(m, k)].quantity = v]
    ELSE SubSeq(m, 1, MapLowerBound(m, k)) \o <<Level(k, v)>>
            \o SubSeq(m, MapLowerBound(m, k) + 1, Len(m))

\* MapErase unlinking begin() whatever the key
MapErase_front(m, k) == IF m = <<>> THEN m ELSE Tail(m)

\* m.erase(k)
MapErase(m, k) == SelectSeq(m, LAMBDA l : l.price # k)

MapKeys(m) == {m[i].price : i \in 1..Len(m)}
MapLevels(m) == {m[i] : i \in 1..Len(m)}

\* ------------------------------------------------------------ class OrderBook
\* updateLevel with the test quantity >= 0: a zero is stored
updateLevel_storeZero(m, price, quantity) ==
    IF quantity >= 0 THEN MapAssign(m, price, quantity) ELSE MapErase(m, price)

\* the body of updateBid / updateAsk on the side's map
updateLevel(m, price, quantity) ==
    IF quantity > 0 THEN MapAssign(m, price, quantity) ELSE MapErase(m, price)

\* BestBidOf reading begin() instead of rbegin()
BestBidOf_begin(bids) == IF bids = <<>> THEN 0 ELSE bids[1].price

\* BidsOf iterating from begin() instead of rbegin()
BidsOf_forward(bids, depth) ==
    [i \in 1..(IF depth < Len(bids) THEN depth ELSE Len(bids)) |-> bids[i]]

\* getBestBid: rbegin()->first, 0.0 on an empty map
BestBidOf(bids) == IF bids = <<>> THEN 0 ELSE bids[Len(bids)].price

\* getBestAsk: begin()->first, 0.0 on an empty map
BestAskOf(asks) == IF asks = <<>> THEN 0 ELSE asks[1].price

\* getSpread on the two best prices it read
SpreadOf(bid, ask) == IF bid > 0 /\ ask > 0 THEN ask - bid ELSE 0

\* getBids: from rbegin(), at most depth levels
BidsOf(bids, depth) ==
    [i \in 1..(IF depth < Len(bids) THEN depth ELSE Len(bids)) |->
        bids[Len(bids) + 1 - i]]

\* getAsks: from begin(), at most depth levels
AsksOf(asks, depth) ==
    [i \in 1..(IF depth < Len(asks) THEN depth ELSE Len(asks)) |-> asks[i]]

getBestBid == BestBidOf(bids_)
getBestAsk == BestAskOf(asks_)
getSpread == SpreadOf(getBestBid, getBestAsk)
getBids(depth) == BidsOf(bids_, depth)
getAsks(depth) == AsksOf(asks_, depth)

Now == clock + 1

RecordLast(side, price, quantity) ==
    [lastQty EXCEPT ![side][price] = IF quantity > 0 THEN quantity ELSE 0]

updateBid(price, quantity) ==
    /\ clock < MaxClock
    /\ bids_' = updateLevel(bids_, price, quantity)
    /\ clock' = Now
    /\ last_updated_' = Now
    /\ lastQty' = RecordLast("bid", price, quantity)
    /\ UNCHANGED asks_

updateAsk(price, quantity) ==
    /\ clock < MaxClock
    /\ asks_' = updateLevel(asks_, price, quantity)
    /\ clock' = Now
    /\ last_updated_' = Now
    /\ lastQty' = RecordLast("ask", price, quantity)
    /\ UNCHANGED bids_

BookInit ==
    /\ bids_ = <<>>
    /\ asks_ = <<>>
    /\ last_updated_ = 0
    /\ clock = 0
    /\ lastQty = [s \in Sides |-> [p \in Prices |-> 0]]

\* ------------------------------------------------------------ RedisPublisher
\* TickHandler constructs RedisPublisher("localhost", 6379): no password
password_ == ""

ConnectOutcomes == {"ok", "refused", "no_context"}
Replies == {"reply_ok", "reply_error", "reply_null"}

\* publish leaving connected_ as it was when redisCommand gives no reply
publish_keepsConnected(reply) ==
    IF ~connected_ \/ context_ = "null"
    THEN [ok |-> FALSE, connected |-> connected_, sent |-> FALSE]
    ELSE [ok |-> reply = "reply_ok", connected |-> connected_, sent |-> TRUE]

\* RedisPublisher::publish: its result and the connected_ flag it leaves,
\* reply being what redisCommand returns when the command is sent
publish(reply) ==
    IF ~connected_ \/ context_ = "null"
    THEN [ok |-> FALSE, connected |-> connected_, sent |-> FALSE]
    ELSE IF reply = "reply_null"
    THEN [ok |-> FALSE, connected |-> FALSE, sent |-> TRUE]
    ELSE IF reply = "reply_error"
    THEN [ok |-> FALSE, connected |-> connected_, sent |-> TRUE]
    ELSE [ok |-> TRUE, connected |-> connected_, sent |-> TRUE]

AuthReplies == {"auth_ok", "auth_error", "auth_null"}

\* connectResult for a connect() that does not look at the AUTH reply
connectResult_authIgnored(pw, outcome, auth, connected) ==
    IF outcome # "ok"
    THEN [ok |-> FALSE, context |-> "null", connected |-> connected,
          sessions |-> 1, auths |-> 0]
    ELSE [ok |-> TRUE, context |-> "ctx", connected |-> TRUE,
          sessions |-> 1, auths |-> IF pw # "" THEN 1 ELSE 0]

\* RedisPublisher::connect with password pw on a client whose flag is
\* connected: what it returns, the context_ and connected_ it leaves, and the
\* redisConnectWithTimeout and AUTH calls it made. outcome is what
\* redisConnectWithTimeout gives, auth the reply to AUTH
connectResult(pw, outcome, auth, connected) ==
    IF outcome # "ok"
    THEN [ok |-> FALSE, context |-> "null", connected |-> connected,
          sessions |-> 1, auths |-> 0]
    ELSE IF pw # "" /\ auth # "auth_ok"
    THEN [ok |-> FALSE, context |-> "null", connected |-> connected,
          sessions |-> 1, auths |-> 1]
    ELSE [ok |-> TRUE, context |-> "ctx", connected |-> TRUE,
          sessions |-> 1, auths |-> IF pw # "" THEN 1 ELSE 0]

\* RedisPublisher::connect on the publisher of the TickHandler
connect(outcome) ==
    /\ context_' = connectResult(password_, outcome, "auth_ok", connected_).context
    /\ connected_' = connectResult(password_, outcome, "auth_ok", connected_).connected

\* ---------------------------------------------------------------- TickHandler
Symbols == {"NIFTY", "TEST"}
FirstSymbol == "NIFTY"
HandlerPrices == {1, 2}
HandlerQtys == {0, 1, 2}
HandlerSides == {"BUY", "SELL"}
Actions == {"ADD", "UPDATE", "DELETE"}
Updates ==
    [price : HandlerPrices, quantity : HandlerQtys, side : HandlerSides,
     action : Actions]

EmptyBook == [bids |-> <<>>, asks |-> <<>>]

\* orderbooks_[symbol]: the entry, default-constructed when absent
BookAt(books, symbol) ==
    IF symbol \in DOMAIN books THEN books[symbol] ELSE EmptyBook

MapPut(f, k, v) == [x \in DOMAIN f \cup {k} |-> IF x = k THEN v ELSE f[x]]

\* the branch of processOrderBookUpdate on one side's map
applyAction(m, update) ==
    IF update.action = "ADD" \/ update.action = "UPDATE"
    THEN MapAssign(m, update.price, update.quantity)
    ELSE IF update.action = "DELETE"
    THEN MapErase(m, update.price)
    ELSE m

\* the book of the symbol after processOrderBookUpdate's mutation
mutateBook(book, update) ==
    IF update.side = "BUY"
    THEN [book EXCEPT !.bids = applyAction(book.bids, update)]
    ELSE [book EXCEPT !.asks = applyAction(book.asks, update)]

booksAfterUpdate(books, symbol, update) ==
    MapPut(books, symbol, mutateBook(BookAt(books, symbol), update))

TradeCapacity == 1000

\* the depth of a snapshot when none is given: toJson(int depth = 10)
DefaultDepth == 10

Trade(symbol, n) ==
    [symbol |-> symbol, price |-> 1, quantity |-> 1, side |-> "BUY", timestamp |-> n]

TradesAt(trades, symbol) ==
    IF symbol \in DOMAIN trades THEN trades[symbol] ELSE <<>>

\* bufferAfterTrade without the size test: the oldest trade is always erased
bufferAfterTrade_alwaysEvict(buffer, trade) == Tail(Append(buffer, trade))

\* the buffer of the symbol after processTrade's push_back and eviction
bufferAfterTrade(buffer, trade) ==
    IF Len(Append(buffer, trade)) > TradeCapacity
    THEN Tail(Append(buffer, trade))
    ELSE Append(buffer, trade)

tradesAfterTrade(trades, symbol, trade) ==
    MapPut(trades, symbol, bufferAfterTrade(TradesAt(trades, symbol), trade))

\* orderBookMessage built from the book as it was before any update
orderBookMessage_stale(symbol, book) ==
    [type |-> "orderbook", symbol |-> symbol, bids |-> <<>>, asks |-> <<>>]

\* TickHandler::publishOrderBook's message: every bid, then every ask, as stored
orderBookMessage(symbol, book) ==
    [type |-> "orderbook", symbol |-> symbol, bids |-> book.bids, asks |-> book.asks]

tradeMessage(symbol, trade) ==
    [type |-> "trade", symbol |-> symbol, price |-> trade.price,
     quantity |-> trade.quantity, side |-> trade.side, timestamp |-> trade.timestamp]

\* keepMutation undoing the mutation when publish fails
keepMutation_rollback(before, after, ok) == IF ok THEN after ELSE before

\* what processOrderBookUpdate / processTrade leave of the mutation once
\* publish has returned ok: the result is not looked at
keepMutation(before, after, ok) == after

\* how the process call ends once publish has returned ok
callOutcome(ok) == "returned"

\* a process call that returns without calling publish
Published_skipped(channel, message, reply) ==
    /\ callResult' = "returned"
    /\ UNCHANGED <<lastPublish, connected_, context_>>

\* publishOrderBook / publishTrade: one publisher_->publish(channel, message);
\* attempts counts these calls
Published(channel, message, reply) ==
    /\ lastPublish' = [channel |-> channel, message |-> message,
                       ok |-> publish(reply).ok, sent |-> publish(reply).sent,
                       attempts |-> lastPublish.attempts + 1]
    /\ connected_' = publish(reply).connected
    /\ callResult' = callOutcome(publish(reply).ok)
    /\ UNCHANGED context_

processOrderBookUpdate(symbol, update, reply) ==
    /\ callResult # "threw"
    /\ orderbooks_' = keepMutation(orderbooks_,
                           booksAfterUpdate(orderbooks_, symbol, update),
                           publish(reply).ok)
    /\ Published("orderbook:" \o symbol,
                 orderBookMessage(symbol,
                     booksAfterUpdate(orderbooks_, symbol, update)[symbol]),
                 reply)
    /\ expectBooks' = booksAfterUpdate(orderbooks_, symbol, update)
    /\ nEvents' = nEvents + 1
    /\ UNCHANGED <<trades_, received, expectTrades>>

processTrade(symbol, reply) ==
    /\ callResult # "threw"
    /\ trades_' = keepMutation(trades_,
                       tradesAfterTrade(trades_, symbol,
                           Trade(symbol, received[symbol] + 1)),
                       publish(reply).ok)
    /\ Published("trades:" \o symbol,
                 tradeMessage(symbol, Trade(symbol, received[symbol] + 1)),
                 reply)
    /\ expectTrades' = tradesAfterTrade(trades_, symbol,
                           Trade(symbol, received[symbol] + 1))
    /\ received' = [received EXCEPT ![symbol] = @ + 1]
    /\ nEvents' = nEvents + 1
    /\ UNCHANGED <<orderbooks_, expectBooks>>

HandlerInit ==
    /\ orderbooks_ = <<>>
    /\ trades_ = <<>>
    /\ connected_ = FALSE
    /\ context_ = "null"
    /\ lastPublish = [channel |-> "", message |-> <<>>, ok |-> FALSE, sent |-> FALSE,
                      attempts |-> 0]
    /\ callResult = "none"
    /\ nEvents = 0
    /\ received = [s \in Symbols |-> 0]
    /\ expectBooks = <<>>
    /\ expectTrades = <<>>

\* --------------------------------------------------------------- specifications
ConcInit ==
    /\ mutex_ = "free"
    /\ pcW = "idle"
    /\ argW = <<>>
    /\ pcR = "idle"
    /\ rdOp = <<>>
    /\ rdResult = <<>>
    /\ rdExpect = <<>>
    /\ snap = <<>>
    /\ committed = [bids |-> <<>>, asks |-> <<>>, timestamp |-> 0]
    /\ seen = {}

IdemInit ==
    /\ idemPc = "setup"
    /\ idemEv = <<>>
    /\ idemAfter = <<>>

Threads == {"t1", "t2"}
Callers == {"main", "other"}
Owner == "main"

RegInit ==
    /\ orderbook_mutex_ = "free"
    /\ pcP = [t \in Threads |-> "idle"]
    /\ argP = [t \in Threads |-> <<>>]
    /\ created = [s \in Symbols |-> 0]
    /\ raced = {}

EngInit ==
    /\ running_ = FALSE
    /\ tick_thread_ = 0
    /\ pcL = <<>>
    /\ pcC = [c \in Callers |-> "idle"]

PubInit ==
    /\ password = ""
    /\ lastCall = [op |-> "none"]
    /\ pcH = "none"
    /\ pcS = "idle"
    /\ hbMarked = FALSE
    /\ hbReconnected = FALSE
    /\ connectedOnce = FALSE

MainInit ==
    /\ running = TRUE
    /\ pcM = "main"

Init ==
    /\ BookInit /\ HandlerInit /\ IdemInit /\ ConcInit
    /\ RegInit /\ EngInit /\ PubInit /\ MainInit

\* the OrderBook class, called by one thread
BidUpdated ==
    \E p \in Prices, q \in Quantities :
        updateBid(p, q) /\ UNCHANGED <<handlerVars, idemVars, concVars, threadVars>>

AskUpdated ==
    \E p \in Prices, q \in Quantities :
        updateAsk(p, q) /\ UNCHANGED <<handlerVars, idemVars, concVars, threadVars>>

Next == BidUpdated \/ AskUpdated

Spec == Init /\ [][Next]_vars

\* the TickHandler fed by one ingestion thread. TickHandler never calls
\* connect() on the publisher it owns; PublisherConnects lets connect() run at
\* any time, so that publish is exercised connected as well.
UpdateArrives ==
    \E symbol \in Symbols, update \in Updates, reply \in Replies :
        /\ nEvents < MaxEvents
        /\ processOrderBookUpdate(symbol, update, reply)
        /\ UNCHANGED <<bookVars, idemVars, concVars, threadVars>>

TradeArrives ==
    \E symbol \in Symbols, reply \in Replies :
        /\ nEvents < MaxEvents
        /\ processTrade(symbol, reply)
        /\ UNCHANGED <<bookVars, idemVars, concVars, threadVars>>

PublisherConnects ==
    \E outcome \in ConnectOutcomes :
        /\ nEvents < MaxEvents
        /\ connect(outcome)
        /\ connectedOnce' = (connectedOnce \/ outcome = "ok")
        /\ UNCHANGED <<orderbooks_, trades_, lastPublish, callResult, nEvents,
                       received, expectBooks, expectTrades>>
        /\ UNCHANGED <<password, lastCall, pcH, pcS, hbMarked, hbReconnected>>
        /\ UNCHANGED <<bookVars, idemVars, concVars, regVars, engVars, mainVars>>

\* updates no feed should send: a negative quantity, and values outside the
\* Side and Action enumerations (as a cast of a decoded integer gives)
MalformedUpdates ==
    {[price |-> 1, quantity |-> 0 - 1, side |-> "BUY", action |-> "UPDATE"],
     [price |-> 1, quantity |-> 1, side |-> "Side(2)", action |-> "UPDATE"],
     [price |-> 1, quantity |-> 1, side |-> "BUY", action |-> "Action(3)"]}

MalformedArrives ==
    \E symbol \in Symbols, update \in MalformedUpdates, reply \in Replies :
        /\ nEvents < MaxEvents
        /\ processOrderBookUpdate(symbol, update, reply)
        /\ UNCHANGED <<bookVars, idemVars, concVars, threadVars>>

NextHandler == UpdateArrives \/ TradeArrives \/ PublisherConnects \/ MalformedArrives

SpecHandler == Init /\ [][NextHandler]_vars

\* the trade path alone, fed past the capacity of a buffer: the first symbol
\* receives up to TradeCapacity + MaxOverflow trades, the others MaxOverflow
TradeFlood ==
    \E symbol \in Symbols, reply \in Replies :
        /\ received[symbol] <
              (IF symbol = FirstSymbol THEN TradeCapacity + MaxOverflow ELSE MaxOverflow)
        /\ processTrade(symbol, reply)
        /\ UNCHANGED <<bookVars, idemVars, concVars, threadVars>>

NextTrades == TradeFlood

SpecTrades == Init /\ [][NextTrades]_vars

\* one update applied twice in a row, to an OrderBook or through the
\* TickHandler, after up to MaxSetup other updates of the same object
BookEvents == [target : {"book"}, side : Sides, price : Prices, quantity : Quantities]
HandlerEvents == [target : {"handler"}, symbol : Symbols, update : Updates]

applyEvent(ev) ==
    IF ev.target = "book"
    THEN /\ IF ev.side = "bid"
            THEN updateBid(ev.price, ev.quantity)
            ELSE updateAsk(ev.price, ev.quantity)
         /\ UNCHANGED <<handlerVars, concVars, threadVars>>
    ELSE /\ \E reply \in Replies : processOrderBookUpdate(ev.symbol, ev.update, reply)
         /\ UNCHANGED <<bookVars, concVars, threadVars>>

IdemSetup ==
    \E ev \in BookEvents \cup HandlerEvents :
        /\ idemPc = "setup"
        /\ clock + nEvents < MaxSetup
        /\ IF ev.target = "book" THEN nEvents = 0 ELSE clock = 0
        /\ applyEvent(ev)
        /\ UNCHANGED idemVars

IdemFirst ==
    \E ev \in BookEvents \cup HandlerEvents :
        /\ idemPc = "setup"
        /\ IF ev.target = "book" THEN nEvents = 0 ELSE clock = 0
        /\ applyEvent(ev)
        /\ idemPc' = "once"
        /\ idemEv' = ev
        /\ idemAfter' = <<bids_', asks_', orderbooks_'>>

IdemSecond ==
    /\ idemPc = "once"
    /\ applyEvent(idemEv)
    /\ idemPc' = "twice"
    /\ UNCHANGED <<idemEv, idemAfter>>

NextIdem == IdemSetup \/ IdemFirst \/ IdemSecond

SpecIdem == Init /\ [][NextIdem]_vars

\* ----------------------------------------------- one OrderBook, two threads
\* One thread calls updateBid / updateAsk, the other the readers and toJson.
\* A call that holds mutex_ for its whole body and only reads is one step,
\* taken when the mutex is free; an update is split where it writes: the
\* lock, operator[] linking a new key with quantity 0, the assignment, the
\* time stamp with the unlock. toJson is split at each call it makes.
ConcPrices == {1, 2}
ConcQtys == {0, 1, 2}
ConcDepths == {1, 2}
Readers == {"getBestBid", "getBestAsk", "getBids", "getAsks"}

\* std::lock_guard in updateBid / updateAsk
writerLockFree == mutex_ = "free"

\* readerLockFree for readers that take no lock
readerLockFree_none == TRUE

\* std::lock_guard in getBestBid, getBestAsk, getBids, getAsks
readerLockFree == mutex_ = "free"

sideMap(side) == IF side = "bid" THEN bids_ ELSE asks_

setSide(side, m) ==
    IF side = "bid"
    THEN bids_' = m /\ UNCHANGED asks_
    ELSE asks_' = m /\ UNCHANGED bids_

W_lock ==
    \E side \in Sides, price \in ConcPrices, quantity \in ConcQtys :
        /\ pcW = "idle"
        /\ clock < MaxWrites
        /\ writerLockFree
        /\ mutex_' = "writer"
        /\ argW' = [side |-> side, price |-> price, quantity |-> quantity]
        /\ pcW' = "write"
        /\ UNCHANGED <<bookVars, pcR, rdOp, rdResult, rdExpect, snap, committed, seen>>
        /\ UNCHANGED <<handlerVars, idemVars, threadVars>>

W_write ==
    /\ pcW = "write"
    /\ IF argW.quantity > 0
       THEN IF MapFind(sideMap(argW.side), argW.price) = 0
            THEN /\ setSide(argW.side, MapAssign(sideMap(argW.side), argW.price, 0))
                 /\ pcW' = "assign"
            ELSE /\ setSide(argW.side,
                        MapAssign(sideMap(argW.side), argW.price, argW.quantity))
                 /\ pcW' = "stamp"
       ELSE /\ setSide(argW.side, MapErase(sideMap(argW.side), argW.price))
            /\ pcW' = "stamp"
    /\ UNCHANGED <<last_updated_, clock, lastQty, mutex_, argW, pcR, rdOp, rdResult,
                   rdExpect, snap, committed, seen>>
    /\ UNCHANGED <<handlerVars, idemVars, threadVars>>

W_assign ==
    /\ pcW = "assign"
    /\ setSide(argW.side, MapAssign(sideMap(argW.side), argW.price, argW.quantity))
    /\ pcW' = "stamp"
    /\ UNCHANGED <<last_updated_, clock, lastQty, mutex_, argW, pcR, rdOp, rdResult,
                   rdExpect, snap, committed, seen>>
    /\ UNCHANGED <<handlerVars, idemVars, threadVars>>

InToJson == pcR \in {"bids", "asks", "bestbid", "bestask"}

W_stamp ==
    /\ pcW = "stamp"
    /\ last_updated_' = Now
    /\ clock' = Now
    /\ lastQty' = RecordLast(argW.side, argW.price, argW.quantity)
    /\ committed' = [bids |-> bids_, asks |-> asks_, timestamp |-> Now]
    /\ seen' = IF InToJson THEN seen \cup {committed'} ELSE seen
    /\ mutex_' = "free"
    /\ pcW' = "idle"
    /\ argW' = <<>>
    /\ UNCHANGED <<bids_, asks_, pcR, rdOp, rdResult, rdExpect, snap>>
    /\ UNCHANGED <<handlerVars, idemVars, threadVars>>

\* what a reader returns on the maps b (bids) and a (asks)
readerResult(op, depth, b, a) ==
    IF op = "getBestBid" THEN BestBidOf(b)
    ELSE IF op = "getBestAsk" THEN BestAskOf(a)
    ELSE IF op = "getBids" THEN BidsOf(b, depth)
    ELSE AsksOf(a, depth)

R_get ==
    \E op \in Readers, depth \in ConcDepths :
        /\ pcR = "idle"
        /\ readerLockFree
        /\ rdOp' = [op |-> op, depth |-> depth]
        /\ rdResult' = readerResult(op, depth, bids_, asks_)
        /\ rdExpect' = readerResult(op, depth, committed.bids, committed.asks)
        /\ pcR' = "got"
        /\ UNCHANGED <<bookVars, mutex_, pcW, argW, snap, committed, seen>>
        /\ UNCHANGED <<handlerVars, idemVars, threadVars>>

R_return ==
    /\ pcR \in {"got", "done"}
    /\ pcR' = "idle"
    /\ rdOp' = <<>>
    /\ rdResult' = <<>>
    /\ rdExpect' = <<>>
    /\ snap' = <<>>
    /\ seen' = {}
    /\ UNCHANGED <<bookVars, mutex_, pcW, argW, committed>>
    /\ UNCHANGED <<handlerVars, idemVars, threadVars>>

\* toJson: last_updated_ is read without the mutex
J_timestamp ==
    \E depth \in ConcDepths :
        /\ pcR = "idle"
        /\ snap' = [depth |-> depth, timestamp |-> last_updated_]
        /\ seen' = {committed}
        /\ pcR' = "bids"
        /\ UNCHANGED <<bookVars, mutex_, pcW, argW, rdOp, rdResult, rdExpect, committed>>
        /\ UNCHANGED <<handlerVars, idemVars, threadVars>>

J_step(at, next, field, value) ==
    /\ pcR = at
    /\ readerLockFree
    /\ snap' = [x \in DOMAIN snap \cup {field} |-> IF x = field THEN value ELSE snap[x]]
    /\ pcR' = next
    /\ UNCHANGED <<bookVars, mutex_, pcW, argW, rdOp, rdResult, rdExpect, committed, seen>>
    /\ UNCHANGED <<handlerVars, idemVars, threadVars>>

J_bids == J_step("bids", "asks", "bids", BidsOf(bids_, snap.depth))
J_asks == J_step("asks", "bestbid", "asks", AsksOf(asks_, snap.depth))
J_bestbid == J_step("bestbid", "bestask", "bid", BestBidOf(bids_))
J_bestask == J_step("bestask", "done", "spread", SpreadOf(snap.bid, BestAskOf(asks_)))

\* the json object toJson(depth) returns on the book c, read at one instant
viewOf(c, depth) ==
    [timestamp |-> c.timestamp, bids |-> BidsOf(c.bids, depth),
     asks |-> AsksOf(c.asks, depth),
     spread |-> SpreadOf(BestBidOf(c.bids), BestAskOf(c.asks))]

snapView ==
    [timestamp |-> snap.timestamp, bids |-> snap.bids, asks |-> snap.asks,
     spread |-> snap.spread]

NextConc ==
    \/ W_lock \/ W_write \/ W_assign \/ W_stamp
    \/ R_get \/ R_return
    \/ J_timestamp \/ J_bids \/ J_asks \/ J_bestbid \/ J_bestask

SpecConc == Init /\ [][NextConc]_vars

\* ------------------------------------------- the registry, several threads
\* Threads call processOrderBookUpdate at the same time. The call is split
\* where it touches shared state: the lock_guard, the lookup and the insertion
\* of orderbooks_[symbol], the write to the side's map, and publishOrderBook
\* with the unlock at the return.
RegUpdates ==
    {u \in Updates : u.price = 1 /\ u.quantity # 0 /\ u.action # "ADD"}

InCall == {"find", "insert", "mutate", "publish"}

\* registryLockFree for a registry without the lock
registryLockFree_none == TRUE

\* std::lock_guard<std::mutex> lock(orderbook_mutex_): one mutex for every symbol
registryLockFree == orderbook_mutex_ = "free"

P_call ==
    \E t \in Threads, symbol \in Symbols, update \in RegUpdates :
        /\ pcP[t] = "idle"
        /\ nEvents < MaxEvents
        /\ pcP' = [pcP EXCEPT ![t] = "lock"]
        /\ argP' = [argP EXCEPT ![t] = [symbol |-> symbol, update |-> update]]
        /\ nEvents' = nEvents + 1
        /\ raced' = IF /\ symbol \notin DOMAIN orderbooks_
                       /\ \E u \in Threads \ {t} :
                             /\ pcP[u] \in {"lock", "find", "insert"}
                             /\ argP[u].symbol = symbol
                    THEN raced \cup {symbol}
                    ELSE raced
        /\ UNCHANGED <<orderbook_mutex_, created>>
        /\ UNCHANGED <<orderbooks_, trades_, connected_, context_, lastPublish,
                       callResult, received, expectBooks, expectTrades>>
        /\ UNCHANGED <<bookVars, idemVars, concVars, engVars, pubVars, mainVars>>

P_lock ==
    \E t \in Threads :
        /\ pcP[t] = "lock"
        /\ registryLockFree
        /\ orderbook_mutex_' = t
        /\ pcP' = [pcP EXCEPT ![t] = "find"]
        /\ expectBooks' = booksAfterUpdate(expectBooks, argP[t].symbol, argP[t].update)
        /\ UNCHANGED <<argP, created, raced>>
        /\ UNCHANGED <<orderbooks_, trades_, connected_, context_, lastPublish,
                       callResult, nEvents, received, expectTrades>>
        /\ UNCHANGED <<bookVars, idemVars, concVars, engVars, pubVars, mainVars>>

\* orderbooks_[symbol]: the lookup of operator[]
P_find ==
    \E t \in Threads :
        /\ pcP[t] = "find"
        /\ pcP' = [pcP EXCEPT ![t] =
                      IF argP[t].symbol \in DOMAIN orderbooks_ THEN "mutate" ELSE "insert"]
        /\ UNCHANGED <<orderbook_mutex_, argP, created, raced>>
        /\ UNCHANGED <<handlerVars, bookVars, idemVars, concVars, engVars, pubVars, mainVars>>

\* orderbooks_[symbol]: operator[] links a default-constructed OrderBook
P_insert ==
    \E t \in Threads :
        /\ pcP[t] = "insert"
        /\ orderbooks_' = MapPut(orderbooks_, argP[t].symbol, EmptyBook)
        /\ created' = [created EXCEPT ![argP[t].symbol] = @ + 1]
        /\ pcP' = [pcP EXCEPT ![t] = "mutate"]
        /\ UNCHANGED <<orderbook_mutex_, argP, raced>>
        /\ UNCHANGED <<trades_, connected_, context_, lastPublish,
                       callResult, nEvents, received, expectBooks, expectTrades>>
        /\ UNCHANGED <<bookVars, idemVars, concVars, engVars, pubVars, mainVars>>

P_mutate ==
    \E t \in Threads :
        /\ pcP[t] = "mutate"
        /\ orderbooks_' = booksAfterUpdate(orderbooks_, argP[t].symbol, argP[t].update)
        /\ pcP' = [pcP EXCEPT ![t] = "publish"]
        /\ UNCHANGED <<orderbook_mutex_, argP, created, raced>>
        /\ UNCHANGED <<trades_, connected_, context_, lastPublish,
                       callResult, nEvents, received, expectBooks, expectTrades>>
        /\ UNCHANGED <<bookVars, idemVars, concVars, engVars, pubVars, mainVars>>

\* publishOrderBook(symbol, orderbook), then the lock_guard's unlock
P_publish ==
    \E t \in Threads, reply \in Replies :
        /\ pcP[t] = "publish"
        /\ Published("orderbook:" \o argP[t].symbol,
                     orderBookMessage(argP[t].symbol, BookAt(orderbooks_, argP[t].symbol)),
                     reply)
        /\ orderbook_mutex_' = "free"
        /\ pcP' = [pcP EXCEPT ![t] = "idle"]
        /\ UNCHANGED <<argP, created, raced>>
        /\ UNCHANGED <<orderbooks_, trades_, nEvents, received, expectBooks, expectTrades>>
        /\ UNCHANGED <<bookVars, idemVars, concVars, engVars, pubVars, mainVars>>

NextRegistry == P_call \/ P_lock \/ P_find \/ P_insert \/ P_mutate \/ P_publish

SpecRegistry == Init /\ [][NextRegistry]_vars

\* ------------------------------------------------ start(), stop(), tickLoop
\* The owning thread calls start() and stop() in any order, as main() and the
\* destructor do; each call is split at its reads and writes of running_ and
\* tick_thread_. Every start() that gets through spawns a thread running
\* tickLoop: the test of running_, the order book update, the optional trade
\* with the sleep. A cycle is entered only while fewer than MaxEvents events
\* have been processed.
TickUpdates == {u \in Updates : u.action = "UPDATE" /\ u.quantity # 0}

StopSet == {"stop_joinable", "stop_join"}
StopPcs == {"stop_check", "stop_set"} \cup StopSet

\* no thread has run into std::terminate
Alive == \A c \in Callers : pcC[c] # "terminate"

LoopsAlive == {l \in DOMAIN pcL : pcL[l] # "exited"}

\* loopContinues for a loop that never looks at the flag
loopContinues_always(flag) == TRUE

\* while (running_)
loopContinues(flag) == flag

\* start(): if (running_) return;
S_check ==
    /\ pcC[Owner] = "idle"
    /\ Alive
    /\ Len(pcL) < MaxStarts
    /\ pcC' = [pcC EXCEPT ![Owner] = IF running_ THEN "idle" ELSE "start_set"]
    /\ UNCHANGED <<running_, tick_thread_, pcL>>
    /\ UNCHANGED <<bookVars, handlerVars, idemVars, concVars, regVars, pubVars, mainVars>>

\* start(): running_ = true;
S_set ==
    /\ pcC[Owner] = "start_set"
    /\ Alive
    /\ running_' = TRUE
    /\ pcC' = [pcC EXCEPT ![Owner] = "start_spawn"]
    /\ UNCHANGED <<tick_thread_, pcL>>
    /\ UNCHANGED <<bookVars, handlerVars, idemVars, concVars, regVars, pubVars, mainVars>>

\* start(): tick_thread_ = std::thread(&TickHandler::tickLoop, this);
\* assigning to a joinable std::thread calls std::terminate
S_spawn ==
    /\ pcC[Owner] = "start_spawn"
    /\ Alive
    /\ IF tick_thread_ # 0
       THEN /\ pcC' = [pcC EXCEPT ![Owner] = "terminate"]
            /\ UNCHANGED <<tick_thread_, pcL>>
       ELSE /\ pcL' = Append(pcL, "test")
            /\ tick_thread_' = Len(pcL) + 1
            /\ pcC' = [pcC EXCEPT ![Owner] = "idle"]
    /\ UNCHANGED running_
    /\ UNCHANGED <<bookVars, handlerVars, idemVars, concVars, regVars, pubVars, mainVars>>

T_call(c) ==
    /\ pcC[c] = "idle"
    /\ Alive
    /\ pcC' = [pcC EXCEPT ![c] = "stop_check"]
    /\ UNCHANGED <<running_, tick_thread_, pcL>>
    /\ UNCHANGED <<bookVars, handlerVars, idemVars, concVars, regVars, pubVars, mainVars>>

\* stop(): if (!running_) return;
T_check(c) ==
    /\ pcC[c] = "stop_check"
    /\ Alive
    /\ pcC' = [pcC EXCEPT ![c] = IF running_ THEN "stop_set" ELSE "idle"]
    /\ UNCHANGED <<running_, tick_thread_, pcL>>
    /\ UNCHANGED <<bookVars, handlerVars, idemVars, concVars, regVars, pubVars, mainVars>>

\* stop(): running_ = false;
T_set(c) ==
    /\ pcC[c] = "stop_set"
    /\ Alive
    /\ running_' = FALSE
    /\ pcC' = [pcC EXCEPT ![c] = "stop_joinable"]
    /\ UNCHANGED <<tick_thread_, pcL>>
    /\ UNCHANGED <<bookVars, handlerVars, idemVars, concVars, regVars, pubVars, mainVars>>

\* stop(): if (tick_thread_.joinable())
T_joinable(c) ==
    /\ pcC[c] = "stop_joinable"
    /\ Alive
    /\ pcC' = [pcC EXCEPT ![c] = IF tick_thread_ # 0 THEN "stop_join" ELSE "idle"]
    /\ UNCHANGED <<running_, tick_thread_, pcL>>
    /\ UNCHANGED <<bookVars, handlerVars, idemVars, concVars, regVars, pubVars, mainVars>>

\* stop(): tick_thread_.join(); it returns once the thread has exited, and
\* throws std::system_error when the thread is no longer joinable
T_join(c) ==
    /\ pcC[c] = "stop_join"
    /\ Alive
    /\ IF tick_thread_ = 0
       THEN /\ pcC' = [pcC EXCEPT ![c] = "threw"]
            /\ UNCHANGED tick_thread_
       ELSE /\ pcL[tick_thread_] = "exited"
            /\ tick_thread_' = 0
            /\ pcC' = [pcC EXCEPT ![c] = "idle"]
    /\ UNCHANGED <<running_, pcL>>
    /\ UNCHANGED <<bookVars, handlerVars, idemVars, concVars, regVars, pubVars, mainVars>>

Stop_call == T_call(Owner)
Stop_check == T_check(Owner)
Stop_set == T_set(Owner)
Stop_joinable == T_joinable(Owner)
Stop_join == T_join(Owner)

\* tickLoop: while (running_)
L_test ==
    \E l \in DOMAIN pcL :
        /\ pcL[l] = "test"
        /\ Alive
        /\ IF loopContinues(running_)
           THEN /\ nEvents < MaxEvents
                /\ pcL' = [pcL EXCEPT ![l] = "update"]
           ELSE pcL' = [pcL EXCEPT ![l] = "exited"]
        /\ UNCHANGED <<running_, tick_thread_, pcC>>
        /\ UNCHANGED <<bookVars, handlerVars, idemVars, concVars, regVars, pubVars, mainVars>>

\* tickLoop: processOrderBookUpdate("NIFTY", update)
L_update ==
    \E l \in DOMAIN pcL, update \in TickUpdates, reply \in Replies :
        /\ pcL[l] = "update"
        /\ Alive
        /\ processOrderBookUpdate(FirstSymbol, update, reply)
        /\ pcL' = [pcL EXCEPT ![l] = "trade"]
        /\ UNCHANGED <<running_, tick_thread_, pcC>>
        /\ UNCHANGED <<bookVars, idemVars, concVars, regVars, pubVars, mainVars>>

\* tickLoop: one time in ten processTrade("NIFTY", trade); then the sleep
L_trade ==
    \E l \in DOMAIN pcL, trade \in BOOLEAN, reply \in Replies :
        /\ pcL[l] = "trade"
        /\ Alive
        /\ IF trade
           THEN processTrade(FirstSymbol, reply)
           ELSE UNCHANGED handlerVars
        /\ pcL' = [pcL EXCEPT ![l] = "test"]
        /\ UNCHANGED <<running_, tick_thread_, pcC>>
        /\ UNCHANGED <<bookVars, idemVars, concVars, regVars, pubVars, mainVars>>

NextEngine ==
    \/ S_check \/ S_set \/ S_spawn
    \/ Stop_call \/ Stop_check \/ Stop_set \/ Stop_joinable \/ Stop_join
    \/ L_test \/ L_update \/ L_trade

SpecEngine == Init /\ [][NextEngine]_vars

\* the same with the threads scheduled: the loop thread keeps taking its
\* steps, and a stop() call, once made, keeps taking its own
SpecEngineFair ==
    /\ Init
    /\ [][NextEngine]_vars
    /\ WF_vars(L_test \/ L_update \/ L_trade)
    /\ WF_vars(Stop_check \/ Stop_set \/ Stop_joinable \/ Stop_join)

\* a second thread calls stop() as well
Other_call == T_call("other")
Other_check == T_check("other")
Other_set == T_set("other")
Other_joinable == T_joinable("other")
Other_join == T_join("other")

NextStop ==
    \/ S_check \/ S_set \/ S_spawn
    \/ Stop_call \/ Stop_check \/ Stop_set \/ Stop_joinable \/ Stop_join
    \/ L_test \/ L_update \/ L_trade
    \/ Other_call \/ Other_check \/ Other_set \/ Other_joinable \/ Other_join

SpecStop == Init /\ [][NextStop]_vars

\* ------------------------------------------------------------------- main()
\* main() installs signalHandler for SIGINT and SIGTERM, constructs the
\* TickHandler, calls start(), polls every 100 ms, calls stop() and returns.
\* Its place is read off the engine: before start() no loop thread was
\* spawned, while polling the thread is joinable, after stop() it is not.
\* TickHandler::isRunning
isRunning == running_

\* pollContinues for a loop that tests isRunning() alone
pollContinues_ignoresSignal(flag, engineRunning) == engineRunning

\* while (running && tickHandler.isRunning())
pollContinues(flag, engineRunning) == flag /\ engineRunning

\* signalHandler: running = false
Signal ==
    /\ pcM = "main"
    /\ running' = FALSE
    /\ UNCHANGED pcM
    /\ UNCHANGED <<bookVars, handlerVars, idemVars, concVars, regVars, engVars, pubVars>>

\* tickHandler.start()
Main_start ==
    /\ pcM = "main"
    /\ Len(pcL) = 0
    /\ S_check

\* the polling loop is left; tickHandler.stop()
Main_stop ==
    /\ pcM = "main"
    /\ Len(pcL) = 1
    /\ tick_thread_ # 0
    /\ ~pollContinues(running, isRunning)
    /\ T_call(Owner)

\* return 0
Main_return ==
    /\ pcM = "main"
    /\ pcC[Owner] = "idle"
    /\ Len(pcL) = 1
    /\ tick_thread_ = 0
    /\ pcM' = "returned"
    /\ UNCHANGED running
    /\ UNCHANGED <<bookVars, handlerVars, idemVars, concVars, regVars, engVars, pubVars>>

NextMain ==
    \/ Signal \/ Main_start \/ S_set \/ S_spawn
    \/ Main_stop \/ Stop_check \/ Stop_set \/ Stop_joinable \/ Stop_join
    \/ Main_return
    \/ L_test \/ L_update \/ L_trade

\* the main thread and the loop thread are scheduled
SpecMain ==
    /\ Init
    /\ [][NextMain]_vars
    /\ WF_vars(Main_start \/ S_set \/ S_spawn \/ Main_stop \/ Stop_check
                 \/ Stop_set \/ Stop_joinable \/ Stop_join \/ Main_return)
    /\ WF_vars(L_test \/ L_update \/ L_trade)

\* the lifecycle the members encode
Lifecycle ==
    IF running_ THEN "Running"
    ELSE IF \E c \in Callers : pcC[c] \in StopSet THEN "Stopping"
    ELSE IF Len(pcL) = 0 THEN "Idle"
    ELSE "Stopped"

LifecycleSteps ==
    {<<"Idle", "Running">>, <<"Running", "Stopping">>, <<"Stopping", "Stopped">>}

\* ------------------------------------------- RedisPublisher, one caller
\* A publisher built with or without a password, its methods called one at a
\* time; lastCall keeps each call's state before and after.
Passwords == {"", "secret"}
PubChannels == {"quotes:" \o s : s \in Symbols}
PubMessage == [type |-> "quote"]

ClientState == [connected |-> connected_, context |-> context_]

\* RedisPublisher::RedisPublisher(host, port, password)
Call_create ==
    \E pw \in Passwords :
        /\ lastCall.op = "none"
        /\ pcH = "none"
        /\ pcS = "idle"
        /\ password' = pw
        /\ lastCall' = [op |-> "new"]
        /\ UNCHANGED <<pcH, pcS, hbMarked, hbReconnected, connectedOnce>>
        /\ UNCHANGED <<bookVars, handlerVars, idemVars, concVars, regVars, engVars, mainVars>>

\* connect(), called before the heartbeat is started
Call_connect ==
    \E outcome \in ConnectOutcomes, auth \in AuthReplies :
        /\ pcH = "none"
        /\ pcS = "idle"
        /\ context_' = connectResult(password, outcome, auth, connected_).context
        /\ connected_' = connectResult(password, outcome, auth, connected_).connected
        /\ connectedOnce' =
              (connectedOnce \/ connectResult(password, outcome, auth, connected_).ok)
        /\ lastCall' =
              [op |-> "connect", before |-> ClientState,
               outcome |-> outcome, auth |-> auth,
               result |-> connectResult(password, outcome, auth, connected_)]
        /\ UNCHANGED <<password, pcH, pcS, hbMarked, hbReconnected>>
        /\ UNCHANGED <<orderbooks_, trades_, lastPublish, callResult, nEvents,
                       received, expectBooks, expectTrades>>
        /\ UNCHANGED <<bookVars, idemVars, concVars, regVars, engVars, mainVars>>

\* publish(channel, message), the whole call
Call_publish ==
    \E channel \in PubChannels, reply \in Replies :
        /\ pcH = "none"
        /\ pcS = "idle"
        /\ lastPublish.attempts < MaxEvents
        /\ Published(channel, PubMessage, reply)
        /\ lastCall' =
              [op |-> "publish", before |-> ClientState, reply |-> reply,
               result |-> publish(reply),
               after |-> [connected |-> publish(reply).connected, context |-> context_]]
        /\ UNCHANGED <<password, pcH, pcS, hbMarked, hbReconnected, connectedOnce>>
        /\ UNCHANGED <<orderbooks_, trades_, nEvents, received, expectBooks, expectTrades>>
        /\ UNCHANGED <<bookVars, idemVars, concVars, regVars, engVars, mainVars>>

\* disconnect()
Call_disconnect ==
    /\ pcH = "none"
    /\ pcS = "idle"
    /\ context_ # "null"
    /\ context_' = "null"
    /\ connected_' = FALSE
    /\ lastCall' = [op |-> "disconnect", before |-> ClientState]
    /\ UNCHANGED <<password, pcH, pcS, hbMarked, hbReconnected, connectedOnce>>
    /\ UNCHANGED <<orderbooks_, trades_, lastPublish, callResult, nEvents,
                   received, expectBooks, expectTrades>>
    /\ UNCHANGED <<bookVars, idemVars, concVars, regVars, engVars, mainVars>>

\* RedisPublisher::set: no reply and an error reply both return false;
\* connected_ is not written
set(reply) ==
    IF ~connected_ \/ context_ = "null"
    THEN [ok |-> FALSE, connected |-> connected_, sent |-> FALSE]
    ELSE [ok |-> reply = "reply_ok", connected |-> connected_, sent |-> TRUE]

\* RedisPublisher::get: the value of a string reply, "" otherwise;
\* connected_ is not written
get(reply) ==
    IF ~connected_ \/ context_ = "null"
    THEN [ok |-> FALSE, value |-> "", connected |-> connected_, sent |-> FALSE]
    ELSE [ok |-> reply = "reply_ok",
          value |-> IF reply = "reply_ok" THEN "value" ELSE "",
          connected |-> connected_, sent |-> TRUE]

Call_set ==
    \E reply \in Replies :
        /\ pcH = "none"
        /\ pcS = "idle"
        /\ connected_' = set(reply).connected
        /\ lastCall' =
              [op |-> "set", before |-> ClientState, reply |-> reply,
               result |-> set(reply),
               after |-> [connected |-> set(reply).connected, context |-> context_]]
        /\ UNCHANGED <<password, pcH, pcS, hbMarked, hbReconnected, connectedOnce>>
        /\ UNCHANGED <<orderbooks_, trades_, context_, lastPublish, callResult, nEvents,
                       received, expectBooks, expectTrades>>
        /\ UNCHANGED <<bookVars, idemVars, concVars, regVars, engVars, mainVars>>

Call_get ==
    \E reply \in Replies :
        /\ pcH = "none"
        /\ pcS = "idle"
        /\ connected_' = get(reply).connected
        /\ lastCall' =
              [op |-> "get", before |-> ClientState, reply |-> reply,
               result |-> get(reply),
               after |-> [connected |-> get(reply).connected, context |-> context_]]
        /\ UNCHANGED <<password, pcH, pcS, hbMarked, hbReconnected, connectedOnce>>
        /\ UNCHANGED <<orderbooks_, trades_, context_, lastPublish, callResult, nEvents,
                       received, expectBooks, expectTrades>>
        /\ UNCHANGED <<bookVars, idemVars, concVars, regVars, engVars, mainVars>>

NextPublisher ==
    \/ Call_create \/ Call_connect \/ Call_publish \/ Call_disconnect
    \/ Call_set \/ Call_get

SpecPublisher == Init /\ [][NextPublisher]_vars

\* -------------------------------- RedisPublisher, heartbeat and a publisher
\* After connect() the heartbeat thread is started; another thread calls
\* publish. connected_ is a std::atomic<bool>, context_ a plain pointer; no
\* mutex is taken by either thread. publish is split at its reads of
\* connected_ and context_ and at redisCommand, the heartbeat at the loop
\* test, ping(), the write of connected_ and connect().
PingReplies == {"pong", "ping_error", "ping_null"}

\* RedisPublisher::ping
ping(reply) == connected_ /\ context_ # "null" /\ reply = "pong"

\* startHeartbeat(interval_seconds)
StartHeartbeat ==
    /\ pcH = "none"
    /\ pcS = "idle"
    /\ lastCall.op = "connect"
    /\ pcH' = "while"
    /\ UNCHANGED <<password, lastCall, pcS, hbMarked, hbReconnected, connectedOnce>>
    /\ UNCHANGED <<bookVars, handlerVars, idemVars, concVars, regVars, engVars, mainVars>>

\* heartbeat: sleep_for(interval_seconds); while (connected_)
H_while ==
    /\ pcH = "while"
    /\ pcH' = IF connected_ THEN "ping" ELSE "exited"
    /\ UNCHANGED <<password, lastCall, pcS, hbMarked, hbReconnected, connectedOnce>>
    /\ UNCHANGED <<bookVars, handlerVars, idemVars, concVars, regVars, engVars, mainVars>>

\* heartbeat: if (!ping())
H_ping ==
    \E reply \in PingReplies :
        /\ pcH = "ping"
        /\ pcH' = IF ping(reply) THEN "while" ELSE "mark"
        /\ UNCHANGED <<password, lastCall, pcS, hbMarked, hbReconnected, connectedOnce>>
        /\ UNCHANGED <<bookVars, handlerVars, idemVars, concVars, regVars, engVars, mainVars>>

\* heartbeat: connected_ = false; sleep_for(5 s)
H_mark ==
    /\ pcH = "mark"
    /\ connected_' = FALSE
    /\ hbMarked' = TRUE
    /\ pcH' = "reconnect"
    /\ UNCHANGED <<password, lastCall, pcS, hbReconnected, connectedOnce>>
    /\ UNCHANGED <<orderbooks_, trades_, context_, lastPublish, callResult, nEvents,
                   received, expectBooks, expectTrades>>
    /\ UNCHANGED <<bookVars, idemVars, concVars, regVars, engVars, mainVars>>

\* heartbeat: if (connect()) ...; connect() overwrites context_
H_reconnect ==
    \E outcome \in ConnectOutcomes, auth \in AuthReplies :
        /\ pcH = "reconnect"
        /\ context_' = connectResult(password, outcome, auth, connected_).context
        /\ connected_' = connectResult(password, outcome, auth, connected_).connected
        /\ connectedOnce' =
              (connectedOnce \/ connectResult(password, outcome, auth, connected_).ok)
        /\ hbMarked' = ~connectResult(password, outcome, auth, connected_).ok
        /\ hbReconnected' = TRUE
        /\ pcH' = "while"
        /\ UNCHANGED <<password, lastCall, pcS>>
        /\ UNCHANGED <<orderbooks_, trades_, lastPublish, callResult, nEvents,
                       received, expectBooks, expectTrades>>
        /\ UNCHANGED <<bookVars, idemVars, concVars, regVars, engVars, mainVars>>

\* publish: if (!connected_ || !context_) return false;
Pub_check ==
    \E channel \in PubChannels :
        /\ pcH # "none"
        /\ pcS = "idle"
        /\ lastPublish' = [channel |-> channel, message |-> PubMessage,
                           ok |-> FALSE, sent |-> FALSE, attempts |-> 0]
        /\ pcS' = IF ~connected_ \/ context_ = "null" THEN "idle" ELSE "send"
        /\ UNCHANGED <<password, lastCall, pcH, hbMarked, hbReconnected, connectedOnce>>
        /\ UNCHANGED <<orderbooks_, trades_, connected_, context_, callResult, nEvents,
                       received, expectBooks, expectTrades>>
        /\ UNCHANGED <<bookVars, idemVars, concVars, regVars, engVars, mainVars>>

\* publish: redisCommand(context_, "PUBLISH ...") reads context_ again and
\* sends on it; a null context_ is dereferenced
Pub_send ==
    /\ pcS = "send"
    /\ IF context_ = "null"
       THEN pcS' = "crashed" /\ UNCHANGED lastPublish
       ELSE pcS' = "reply" /\ lastPublish' = [lastPublish EXCEPT !.sent = TRUE]
    /\ UNCHANGED <<password, lastCall, pcH, hbMarked, hbReconnected, connectedOnce>>
    /\ UNCHANGED <<orderbooks_, trades_, connected_, context_, callResult, nEvents,
                   received, expectBooks, expectTrades>>
    /\ UNCHANGED <<bookVars, idemVars, concVars, regVars, engVars, mainVars>>

\* publish: the reply; a null reply clears connected_
Pub_reply ==
    \E reply \in Replies :
        /\ pcS = "reply"
        /\ connected_' = IF reply = "reply_null" THEN FALSE ELSE connected_
        /\ lastPublish' = [lastPublish EXCEPT !.ok = (reply = "reply_ok")]
        /\ pcS' = "idle"
        /\ UNCHANGED <<password, lastCall, pcH, hbMarked, hbReconnected, connectedOnce>>
        /\ UNCHANGED <<orderbooks_, trades_, context_, callResult, nEvents,
                       received, expectBooks, expectTrades>>
        /\ UNCHANGED <<bookVars, idemVars, concVars, regVars, engVars, mainVars>>

NextHeartbeat ==
    \/ Call_create \/ Call_connect \/ StartHeartbeat
    \/ H_while \/ H_ping \/ H_mark \/ H_reconnect
    \/ Pub_check \/ Pub_send \/ Pub_reply

SpecHeartbeat == Init /\ [][NextHeartbeat]_vars

\* stopHeartbeat: if (heartbeat_thread_.joinable()) connected_ = false;
StopHb_call ==
    /\ pcH \notin {"none", "joined"}
    /\ pcS = "idle"
    /\ connected_' = FALSE
    /\ pcS' = "join"
    /\ UNCHANGED <<password, lastCall, pcH, hbMarked, hbReconnected, connectedOnce>>
    /\ UNCHANGED <<orderbooks_, trades_, context_, lastPublish, callResult, nEvents,
                   received, expectBooks, expectTrades>>
    /\ UNCHANGED <<bookVars, idemVars, concVars, regVars, engVars, mainVars>>

\* stopHeartbeat: heartbeat_thread_.join() returns once the thread has left
\* its loop
StopHb_join ==
    /\ pcS = "join"
    /\ pcH = "exited"
    /\ pcH' = "joined"
    /\ pcS' = "idle"
    /\ UNCHANGED <<password, lastCall, hbMarked, hbReconnected, connectedOnce>>
    /\ UNCHANGED <<bookVars, handlerVars, idemVars, concVars, regVars, engVars, mainVars>>

NextHeartbeatStop ==
    \/ Call_create \/ Call_connect \/ StartHeartbeat
    \/ H_while \/ H_ping \/ H_mark \/ H_reconnect
    \/ StopHb_call \/ StopHb_join

\* the heartbeat thread and the thread inside stopHeartbeat() are scheduled
SpecHeartbeatStop ==
    /\ Init
    /\ [][NextHeartbeatStop]_vars
    /\ WF_vars(H_while \/ H_ping \/ H_mark \/ H_reconnect)
    /\ WF_vars(StopHb_join)

\* ------------------------------------------------------------------ helpers
MapOf(side) == IF side = "bid" THEN bids_ ELSE asks_
MaxOf(S) == CHOOSE x \in S : \A y \in S : y <= x
MinOf(S) == CHOOSE x \in S : \A y \in S : x <= y
Smaller(a, b) == IF a < b THEN a ELSE b

\* a std::map holds its keys once each, in ascending order
MapSorted(m) == \A i, j \in 1..Len(m) : i < j => m[i].price < m[j].price
BookSorted == MapSorted(bids_) /\ MapSorted(asks_)

\* ------------------------------------------------------------------- claims
\* C1: after any sequence of updateBid / updateAsk calls, for each side and
\* price the stored quantity is the quantity of the last call for that side
\* and price when that quantity was > 0, and the level is absent when the last
\* call had a quantity <= 0 or no call was made for it.
C1_LastWriteWins ==
    \A s \in Sides, p \in Prices :
        IF lastQty[s][p] > 0
        THEN /\ Level(p, lastQty[s][p]) \in MapLevels(MapOf(s))
             /\ Cardinality({i \in 1..Len(MapOf(s)) : MapOf(s)[i].price = p}) = 1
        ELSE p \notin MapKeys(MapOf(s))

\* more calls were made than levels are stored: some call replaced or removed
C1_Witness == clock > Len(bids_) + Len(asks_) /\ bids_ # <<>> /\ asks_ # <<>>

\* C3: getBestBid() is the maximum price among the bid levels present and
\* getBestAsk() the minimum price among the ask levels present; on an empty
\* side each is 0 (the 'none' value).
C3_BestPrices ==
    /\ getBestBid = IF bids_ = <<>> THEN 0 ELSE MaxOf(MapKeys(bids_))
    /\ getBestAsk = IF asks_ = <<>> THEN 0 ELSE MinOf(MapKeys(asks_))

C3_Witness == Len(bids_) >= 2 /\ Len(asks_) >= 2

\* C4: for every depth n >= 0, getBids(n) has exactly min(n, number of bid
\* levels) levels, the best bid first, in strictly descending price order and
\* without skipping a level; getAsks(n) the same from the best ask, ascending.
C4_DepthOrdered ==
    \A n \in Depths :
        /\ Len(getBids(n)) = Smaller(n, Len(bids_))
        /\ Len(getAsks(n)) = Smaller(n, Len(asks_))
        /\ \A i \in 1..Len(getBids(n)) :
              /\ getBids(n)[i] \in MapLevels(bids_)
              /\ Cardinality({k \in MapKeys(bids_) : k > getBids(n)[i].price}) = i - 1
        /\ \A i \in 1..Len(getAsks(n)) :
              /\ getAsks(n)[i] \in MapLevels(asks_)
              /\ Cardinality({k \in MapKeys(asks_) : k < getAsks(n)[i].price}) = i - 1

\* both sides hold two levels: depth 1 truncates, depth 3 asks for more than held
C4_Witness == Len(bids_) = 2 /\ Len(asks_) = 2 /\ Len(getBids(1)) = 1 /\ Len(getAsks(MaxDepth)) = 2

\* C5: getSpread() is bestAsk - bestBid whenever both sides hold a level, and 0
\* whenever a side is empty.
C5_Spread ==
    getSpread = IF bids_ # <<>> /\ asks_ # <<>>
                THEN MinOf(MapKeys(asks_)) - MaxOf(MapKeys(bids_))
                ELSE 0

\* C2: every bid or ask level stored in TickHandler::orderbooks_ has a
\* quantity > 0: a DELETE, or a quantity of 0 whatever the action, removes the
\* level instead of storing it.
C2_NoZeroLevel ==
    \A symbol \in DOMAIN orderbooks_ :
        \A l \in MapLevels(orderbooks_[symbol].bids) \cup MapLevels(orderbooks_[symbol].asks) :
            l.quantity > 0

\* C6: every snapshot toJson(depth) produces, under any interleaving with
\* updateBid / updateAsk calls, is the view of one single book state: its
\* bids, asks, spread and timestamp are those of one book that existed
\* between the call and its return.
C6_SnapshotAtomic ==
    pcR = "done" => \E c \in seen : snapView = viewOf(c, snap.depth)

\* C7: under any interleaving of updateBid / updateAsk with getBestBid,
\* getBestAsk, getBids and getAsks, what a reader returns is what the call
\* returns on the book as completed updates left it at the instant of the
\* read: no level of a half-applied update is returned.
C7_ReadersSeeCompletedUpdates ==
    pcR = "got" => rdResult = rdExpect

\* a reader holds levels while the other thread is in the middle of an upsert
C7_Witness ==
    /\ pcR = "got"
    /\ rdOp.op = "getBids"
    /\ rdResult # <<>>
    /\ pcW = "assign"
    /\ argW.side = "bid"

\* C8: an update applied twice in a row (same symbol, side, price, quantity,
\* action) leaves the bid and ask levels as the first application left them,
\* for updateBid / updateAsk and for processOrderBookUpdate.
C8_Idempotent ==
    idemPc = "twice" => <<bids_, asks_, orderbooks_>> = idemAfter

\* the update applied twice stored a level, in an OrderBook / in the registry
C8_WitnessBook ==
    /\ idemPc = "twice"
    /\ idemEv.target = "book"
    /\ idemEv.quantity > 0
    /\ Level(idemEv.price, idemEv.quantity) \in MapLevels(MapOf(idemEv.side))

C8_Witness ==
    /\ idemPc = "twice"
    /\ idemEv.target = "handler"
    /\ idemEv.update.action = "UPDATE"
    /\ idemEv.update.quantity > 0
    /\ orderbooks_[idemEv.symbol] # EmptyBook

\* C9: the trade buffer of every symbol holds at most TradeCapacity trades, in
\* arrival order, and they are the most recent min(TradeCapacity, k) of the k
\* trades received for the symbol.
C9_TradeBuffer ==
    \A symbol \in Symbols :
        LET buffer == TradesAt(trades_, symbol) IN
        /\ Len(buffer) = Smaller(TradeCapacity, received[symbol])
        /\ \A i \in 1..Len(buffer) :
              buffer[i] = Trade(symbol, received[symbol] - Len(buffer) + i)

\* the 1001st trade has arrived and the first one is gone
C9_Witness ==
    /\ received[FirstSymbol] = TradeCapacity + 1
    /\ Len(trades_[FirstSymbol]) = TradeCapacity
    /\ trades_[FirstSymbol][1].timestamp = 2

\* C10: when the publish of a processOrderBookUpdate or processTrade call
\* fails, the book or buffer mutation is applied as with a successful
\* publish, and the call returns without an error, so the next event is taken.
C10_FailedPublishKeepsMutation ==
    (callResult # "none" /\ ~lastPublish.ok) =>
        /\ orderbooks_ = expectBooks
        /\ trades_ = expectTrades
        /\ callResult = "returned"

\* a send failed on a connected publisher, after both kinds of call mutated
C10_Witness ==
    /\ callResult = "returned"
    /\ ~lastPublish.ok
    /\ lastPublish.sent
    /\ \E symbol \in DOMAIN orderbooks_ : orderbooks_[symbol] # EmptyBook
    /\ trades_ # <<>>

\* C11: an update to symbol A never blocks a concurrent update to symbol B:
\* while a thread is inside processOrderBookUpdate for A (its publish call
\* included), a thread that has called processOrderBookUpdate for another
\* symbol can take its lock and proceed
C11_NoCrossSymbolBlocking ==
    \A t \in Threads, u \in Threads :
        (/\ pcP[t] \in InCall
         /\ pcP[u] = "lock"
         /\ argP[t].symbol # argP[u].symbol)
        => registryLockFree

\* C12: when no call is inside its locked part, the registry holds, for
\* every symbol updated so far, exactly one book created once, and the books
\* are those the updates leave when applied one after the other in the order
\* the calls took the lock - calls that met on a symbol without a book included
C12_OneBookEveryUpdate ==
    (\A t \in Threads : pcP[t] \notin InCall)
    => /\ orderbooks_ = expectBooks
       /\ \A s \in Symbols :
             created[s] = (IF s \in DOMAIN orderbooks_ THEN 1 ELSE 0)

\* two calls met on a symbol without a book, both have returned, and the
\* symbol's book holds the bid of one and the ask of the other
C12_Witness ==
    \E s \in raced :
        /\ \A t \in Threads : pcP[t] = "idle"
        /\ nEvents = 2
        /\ s \in DOMAIN orderbooks_
        /\ Len(orderbooks_[s].bids) = 1
        /\ Len(orderbooks_[s].asks) = 1

\* C13: when a stop() call returns, on whichever thread, every ingestion
\* loop thread has exited (so the loop mutates no book or trade buffer after
\* the return)
C13_StopReturnsAfterLoopExit ==
    [][\A c \in Callers :
          (pcC[c] \in StopPcs /\ pcC'[c] = "idle") => LoopsAlive = {}]_vars

\* C14: once stop() has set running_ to false the loop enters no further
\* cycle, and the call goes on to return with the loop thread exited
C14_StopTerminates ==
    /\ [][pcC[Owner] \in StopSet
           => \A l \in DOMAIN pcL : ~(pcL[l] = "test" /\ pcL'[l] = "update")]_vars
    /\ (pcC[Owner] \in StopSet) ~> (pcC[Owner] = "idle" /\ LoopsAlive = {})

\* stop() has returned from its join: a loop that processed events has exited
C14_Witness ==
    /\ pcC[Owner] = "idle"
    /\ ~running_
    /\ tick_thread_ = 0
    /\ Len(pcL) > 0
    /\ LoopsAlive = {}
    /\ nEvents > 0

\* C15: whatever start() and stop() calls are made, the lifecycle moves only
\* Idle -> Running -> Stopping -> Stopped, and at most one ingestion loop
\* thread exists at a time
C15_LifecycleOrder ==
    /\ [][Lifecycle' # Lifecycle => <<Lifecycle, Lifecycle'>> \in LifecycleSteps]_vars
    /\ [](Cardinality(LoopsAlive) <= 1)

\* C20: the engine is Running, or has processed an event, only after a
\* connect() of its publisher has succeeded
C20_RunsOnlyConnected ==
    (running_ \/ nEvents > 0) => connectedOnce

\* C16: a publish() on a connected client whose send fails (redisCommand
\* gives no reply) returns false and leaves connected_ false; a publish() on
\* a disconnected client returns false without sending, and leaves connected_
\* and context_ as they were (no reconnection)
C16_PublishFailure ==
    lastCall.op = "publish"
    => /\ (/\ lastCall.before.connected
           /\ lastCall.before.context # "null"
           /\ lastCall.reply = "reply_null")
          => (/\ ~lastCall.result.ok
              /\ lastCall.result.sent
              /\ ~lastCall.after.connected
              /\ ~connected_)
       /\ ~lastCall.before.connected
          => (/\ ~lastCall.result.ok
              /\ ~lastCall.result.sent
              /\ lastCall.after = lastCall.before
              /\ ClientState = lastCall.before)

\* a publish() on a connected client got no reply
C16_Witness ==
    /\ lastCall.op = "publish"
    /\ lastCall.before.connected
    /\ lastCall.before.context # "null"
    /\ lastCall.reply = "reply_null"
    /\ ~connected_

\* C17: once the heartbeat has made a reconnect attempt after a failed
\* ping, it keeps running, whatever the attempt gave
C17_HeartbeatKeepsRunning ==
    hbReconnected => pcH # "exited"

\* C18: publish sends, and reports success, only when the heartbeat has not
\* marked the client disconnected without a reconnect since, and the
\* heartbeat's connect() replaces context_ only when no publish is using it
C18_PublishHeartbeatExclusion ==
    [][/\ (pcS = "send" /\ pcS' = "reply") => ~hbMarked
       /\ (pcS = "reply" /\ pcS' = "idle" /\ lastPublish'.ok) => ~hbMarked
       /\ (pcH = "reconnect" /\ pcH' # "reconnect") => pcS # "reply"]_vars

\* C19: connect() on a disconnected client returns true, and leaves it
\* connected, only when the session is established and, with a password,
\* AUTH succeeds; when AUTH fails it returns false, the client stays
\* disconnected, context_ is released and null, and the call made one
\* redisConnectWithTimeout and one AUTH
C19_ConnectAuth ==
    (lastCall.op = "connect" /\ ~lastCall.before.connected)
    => /\ lastCall.result.ok
          => (/\ lastCall.outcome = "ok"
              /\ (password # "" => lastCall.auth = "auth_ok"))
       /\ lastCall.result.connected = lastCall.result.ok
       /\ (lastCall.outcome = "ok" /\ password # "" /\ lastCall.auth # "auth_ok")
          => (/\ ~lastCall.result.ok
              /\ ~lastCall.result.connected
              /\ lastCall.result.context = "null"
              /\ lastCall.result.sessions = 1
              /\ lastCall.result.auths = 1
              /\ ~connected_
              /\ context_ = "null")

\* connect() with a password on a disconnected client: the session was
\* established and AUTH was refused
C19_Witness ==
    /\ lastCall.op = "connect"
    /\ ~lastCall.before.connected
    /\ password # ""
    /\ lastCall.outcome = "ok"
    /\ lastCall.auth = "auth_error"
    /\ ~connected_
    /\ context_ = "null"

\* C21: main() returns only with stop() completed (the loop thread exited
\* and joined, running_ false), and once a signal has cleared the flag
\* main() leaves its polling loop, stops the engine and returns
C21_SignalStopsThenExits ==
    /\ [](pcM = "returned"
           => /\ pcC[Owner] = "idle"
              /\ ~running_
              /\ tick_thread_ = 0
              /\ LoopsAlive = {})
    /\ (~running) ~> (pcM = "returned")

\* a signal arrived, the loop had processed events, and main() has returned
C21_Witness ==
    /\ pcM = "returned"
    /\ ~running
    /\ nEvents > 0
    /\ LoopsAlive = {}

Descending(levels) ==
    \A i \in 1..(Len(levels) - 1) : levels[i].price > levels[i + 1].price

Ascending(levels) ==
    \A i \in 1..(Len(levels) - 1) : levels[i].price < levels[i + 1].price

\* C22: an orderbook message carries at most DefaultDepth levels per side,
\* best first: bids by descending price, asks by ascending price
C22_DepthBoundedBestFirst ==
    (lastPublish.channel # "" /\ lastPublish.message.type = "orderbook")
    => /\ Len(lastPublish.message.bids) <= DefaultDepth
       /\ Len(lastPublish.message.asks) <= DefaultDepth
       /\ Descending(lastPublish.message.bids)
       /\ Ascending(lastPublish.message.asks)

\* C23: processOrderBookUpdate called with a malformed update leaves every
\* level of every book as it was, and returns (the loop goes on)
C23_MalformedRejected ==
    [][\A symbol \in Symbols, update \in MalformedUpdates, reply \in Replies :
          processOrderBookUpdate(symbol, update, reply)
          => /\ \A s \in Symbols : BookAt(orderbooks_', s) = BookAt(orderbooks_, s)
             /\ callResult' = "returned"]_vars

\* C24: the updates of the one ingestion path are applied in the order
\* received, and each orderbook message is of the symbol's book as the
\* updates received so far, applied in that order, leave it
C24_MessagesInOrder ==
    (lastPublish.channel # "" /\ lastPublish.message.type = "orderbook")
    => /\ orderbooks_ = expectBooks
       /\ lastPublish.message.symbol \in DOMAIN expectBooks
       /\ lastPublish.channel = "orderbook:" \o lastPublish.message.symbol
       /\ lastPublish.message.bids = expectBooks[lastPublish.message.symbol].bids
       /\ lastPublish.message.asks = expectBooks[lastPublish.message.symbol].asks

\* the second update of a symbol was published: its message holds the level
\* of the first update and the level of the second
C24_Witness ==
    /\ nEvents = 2
    /\ lastPublish.channel = "orderbook:NIFTY"
    /\ Len(lastPublish.message.bids) = 1
    /\ Len(lastPublish.message.asks) = 1
    /\ DOMAIN orderbooks_ = {"NIFTY"}

\* C25: set() and get() behave as publish() does: on a disconnected client
\* they fail (false, "") without sending and change nothing; when their
\* command gets no reply on a connected client they fail and leave
\* connected_ false
C25_SetGetLikePublish ==
    lastCall.op \in {"set", "get"}
    => /\ ~lastCall.before.connected
          => (/\ ~lastCall.result.ok
              /\ ~lastCall.result.sent
              /\ lastCall.after = lastCall.before)
       /\ (/\ lastCall.before.connected
           /\ lastCall.before.context # "null"
           /\ lastCall.reply = "reply_null")
          => (/\ ~lastCall.result.ok
              /\ ~lastCall.after.connected)

\* C30: between calls, isConnected() implies that context_ is not null
C30_ConnectedHoldsContext ==
    connected_ => context_ # "null"

\* C26: isRunning() is true exactly while the engine is Running and false
\* when it is Idle or Stopped, and whoever reads false can rely on the loop
\* not processing an event any more
C26_IsRunningReflectsState ==
    /\ Lifecycle = "Running" => isRunning
    /\ Lifecycle \in {"Idle", "Stopped"} => ~isRunning
    /\ ~isRunning => \A l \in DOMAIN pcL : pcL[l] \notin {"update", "trade"}

\* C27: every processOrderBookUpdate call publishes exactly once, on
\* "orderbook:" + symbol, the book of that symbol as the call leaves it; every
\* processTrade call publishes exactly once, on "trades:" + symbol, the trade
\* it has appended to the symbol's buffer
C27_OnePublishPerCall ==
    [][nEvents' = nEvents + 1
       => /\ lastPublish'.attempts = lastPublish.attempts + 1
          /\ IF received' = received
             THEN \E symbol \in Symbols :
                     /\ lastPublish'.channel = "orderbook:" \o symbol
                     /\ lastPublish'.message.type = "orderbook"
                     /\ lastPublish'.message.symbol = symbol
                     /\ symbol \in DOMAIN orderbooks_'
                     /\ lastPublish'.message.bids = orderbooks_'[symbol].bids
                     /\ lastPublish'.message.asks = orderbooks_'[symbol].asks
             ELSE \E symbol \in Symbols :
                     /\ received'[symbol] = received[symbol] + 1
                     /\ lastPublish'.channel = "trades:" \o symbol
                     /\ lastPublish'.message.type = "trade"
                     /\ lastPublish'.message.symbol = symbol
                     /\ symbol \in DOMAIN trades_'
                     /\ Len(trades_'[symbol]) = Len(TradesAt(trades_, symbol)) + 1
                     /\ LET last == trades_'[symbol][Len(trades_'[symbol])]
                        IN  /\ lastPublish'.message.price = last.price
                            /\ lastPublish'.message.quantity = last.quantity
                            /\ lastPublish'.message.side = last.side
                            /\ lastPublish'.message.timestamp = last.timestamp]_vars

C27_Witness ==
    /\ nEvents = 2
    /\ lastPublish.attempts = 2
    /\ lastPublish.message.type = "trade"
    /\ DOMAIN orderbooks_ # {}

\* the levels of a map other than the one at price
OtherLevels(m, price) == {l \in MapLevels(m) : l.price # price}

\* C28: an update at price P on one side changes at most the level at P of
\* that side; the other levels of the side and the whole opposite side stay
\* as they were, the update is applied as given whether or not it crosses
\* the book, and removing an absent level changes nothing
C28_UpdateFrame ==
    [][/\ clock' # clock
          => \A p \in Prices, q \in Quantities :
                /\ updateBid(p, q)
                   => /\ asks_' = asks_
                      /\ OtherLevels(bids_', p) = OtherLevels(bids_, p)
                      /\ q > 0 => Level(p, q) \in MapLevels(bids_')
                      /\ q <= 0 => p \notin MapKeys(bids_')
                      /\ (q <= 0 /\ p \notin MapKeys(bids_)) => bids_' = bids_
                /\ updateAsk(p, q)
                   => /\ bids_' = bids_
                      /\ OtherLevels(asks_', p) = OtherLevels(asks_, p)
                      /\ q > 0 => Level(p, q) \in MapLevels(asks_')
                      /\ q <= 0 => p \notin MapKeys(asks_')
                      /\ (q <= 0 /\ p \notin MapKeys(asks_)) => asks_' = asks_
       /\ nEvents' # nEvents
          => \A symbol \in Symbols, update \in Updates :
                (/\ lastPublish'.channel = "orderbook:" \o symbol
                 /\ \E reply \in Replies : processOrderBookUpdate(symbol, update, reply))
                => LET before == BookAt(orderbooks_, symbol)
                       after == BookAt(orderbooks_', symbol)
                       same == IF update.side = "BUY" THEN "bids" ELSE "asks"
                       opposite == IF update.side = "BUY" THEN "asks" ELSE "bids"
                   IN  /\ after[opposite] = before[opposite]
                       /\ OtherLevels(after[same], update.price)
                             = OtherLevels(before[same], update.price)
                       /\ update.action \in {"ADD", "UPDATE"}
                          => Level(update.price, update.quantity)
                                \in MapLevels(after[same])
                       /\ update.action = "DELETE"
                          => update.price \notin MapKeys(after[same])
                       /\ (update.action = "DELETE"
                             /\ update.price \notin MapKeys(before[same]))
                          => after = before
                       /\ \A other \in Symbols \ {symbol} :
                             BookAt(orderbooks_', other) = BookAt(orderbooks_, other)]_vars

\* a crossed book left by two updates, the second applied once more
C28_Witness ==
    /\ idemPc = "twice"
    /\ bids_ # <<>>
    /\ asks_ # <<>>
    /\ getBestBid >= getBestAsk

\* C29: stopHeartbeat() terminates: once it has cleared connected_ and
\* waits in join(), the heartbeat thread leaves its loop and is joined
C29_StopHeartbeatTerminates ==
    (pcS = "join") ~> (pcH = "joined")

====
